---- MODULE Spec2Model ----
(***************************************************************************)
(* CoffeeOrder / CoffeeOrderBuilder (src/main.py).                         *)
(*                                                                         *)
(* The builder is a mutable object with six fields; every setter either    *)
(* raises ValueError (leaving the object as it was) or assigns one field   *)
(* and returns the builder.  build() raises ValueError when base or size   *)
(* is None and otherwise returns a new CoffeeOrder whose price and         *)
(* description are computed once, in the constructor.                      *)
(*                                                                         *)
(* Prices are Python floats (IEEE-754 binary64).  A float is represented   *)
(* here as [whole |-> N, below |-> d], the real number N - d * 2^-52 with  *)
(* N an integer and d a natural number; FMul and FAdd round as the         *)
(* hardware does.                                                          *)
(***************************************************************************)
EXTENDS Integers, Sequences, FiniteSets, TLC

VARIABLES
    base,       \* CoffeeOrderBuilder.base   (None until set_base succeeds)
    size,       \* CoffeeOrderBuilder.size   (None until set_size succeeds)
    milk,       \* CoffeeOrderBuilder.milk
    syrups,     \* CoffeeOrderBuilder.syrups (a Python set)
    sugar,      \* CoffeeOrderBuilder.sugar
    iced,       \* CoffeeOrderBuilder.iced
    call,       \* the last call made on the builder: [op, s, n, b]
    result,     \* how that call ended: "ok" or the error it raised
    built,      \* <<o>> when that call returned the CoffeeOrder o, else <<>>
    rendered,   \* <<text>> when that call was str(o) on the order of built
    orders      \* the CoffeeOrder objects the caller still holds, oldest first

vars ==
    <<base, size, milk, syrups, sugar, iced, call, result, built, rendered,
      orders>>

(***************************************************************************)
(* Bounds of the model.                                                    *)
(***************************************************************************)
NumNames == 5        \* syrup names the caller picks from (Spec)
MaxSugarArg == 6     \* set_sugar arguments range over -1..MaxSugarArg
MaxKept == 1         \* orders the caller keeps a reference to (SpecReuse)

(***************************************************************************)
(* The catalog: class attributes of CoffeeOrderBuilder.                    *)
(***************************************************************************)
None == "<None>"

BASE_PRICES ==
    [espresso |-> 200, americano |-> 250, latte |-> 300, cappuccino |-> 320]

\* A size multiplier is the binary64 nearest to tenths/10, which is
\* tenths/10 - (err/10) * 2^-52:  1.0 = 0x3FF0000000000000 exactly,
\* 1.2 = 0x3FF3333333333333 = 1.2 - 0.2 * 2^-52,
\* 1.4 = 0x3FF6666666666666 = 1.4 - 0.4 * 2^-52.
SIZE_MULTIPLIERS ==
    [small  |-> [tenths |-> 10, err |-> 0],
     medium |-> [tenths |-> 12, err |-> 2],
     large  |-> [tenths |-> 14, err |-> 4]]

MILK_PRICES ==
    [whole |-> 30, skim |-> 30, oat |-> 60, soy |-> 50, none |-> 0]

SYRUP_PRICE == 40
ICE_PRICE == 20
MAX_SYRUPS == 4
MAX_SUGAR == 5

(***************************************************************************)
(* Arguments the caller passes.                                            *)
(***************************************************************************)
SyrupPool ==
    <<"vanilla", "caramel", "hazelnut", "mint", "cocoa", "maple", "almond">>

Names == {SyrupPool[i] : i \in 1..NumNames}
SugarArgs == -1..MaxSugarArg

\* Spec: the limits (every syrup name, every sugar argument), part of the catalog
BaseArgs == {"espresso", "latte", "mocha"}
SizeArgs == {"small", "large", "venti"}
MilkArgs == {"none", "oat", "cream"}

\* SpecCatalog: the whole catalog, few extras
AllBaseArgs == DOMAIN BASE_PRICES \cup {"mocha"}
AllSizeArgs == DOMAIN SIZE_MULTIPLIERS \cup {"venti"}
AllMilkArgs == DOMAIN MILK_PRICES \cup {"cream"}
FewNames == {"vanilla", "caramel"}
FewSugarArgs == {2, 6}

\* SpecReuse: the reuse scenario of the tests (main.py:163-198)
ReuseBaseArgs == {"latte"}
ReuseSizeArgs == {"medium"}
ReuseMilkArgs == {"oat", "soy"}
ReuseSugarArgs == {2}

\* A call on the builder: its name and its argument (s: a string argument,
\* n: an integer argument, b: a boolean argument; the others at their blank).
Call(op, s, n, b) == [op |-> op, s |-> s, n |-> n, b |-> b]

(***************************************************************************)
(* CoffeeOrderBuilder.__init__                                             *)
(***************************************************************************)
Init ==
    /\ base = None
    /\ size = None
    /\ milk = "none"
    /\ syrups = {}
    /\ sugar = 0
    /\ iced = FALSE
    /\ call = Call("__init__", "", 0, FALSE)
    /\ result = "ok"
    /\ built = <<>>
    /\ rendered = <<>>
    /\ orders = <<>>

\* A call that raises: no field of the builder is assigned.
Raise(c, err) ==
    /\ call' = c
    /\ result' = err
    /\ built' = <<>>
    /\ rendered' = <<>>
    /\ UNCHANGED <<base, size, milk, syrups, sugar, iced, orders>>

\* A setter that returns self.
Return(c) ==
    /\ call' = c
    /\ result' = "ok"
    /\ built' = <<>>
    /\ rendered' = <<>>
    /\ UNCHANGED orders

ValidBase(b) == b \in DOMAIN BASE_PRICES
ValidSize(s) == s \in DOMAIN SIZE_MULTIPLIERS
\* set_milk without its validation
ValidMilkAny(m) == TRUE

ValidMilk(m) == m \in DOMAIN MILK_PRICES

set_base(b) ==
    IF ~ValidBase(b)
    THEN Raise(Call("set_base", b, 0, FALSE), "InvalidOption")
    ELSE /\ base' = b
         /\ Return(Call("set_base", b, 0, FALSE))
         /\ UNCHANGED <<size, milk, syrups, sugar, iced>>

set_size(s) ==
    IF ~ValidSize(s)
    THEN Raise(Call("set_size", s, 0, FALSE), "InvalidOption")
    ELSE /\ size' = s
         /\ Return(Call("set_size", s, 0, FALSE))
         /\ UNCHANGED <<base, milk, syrups, sugar, iced>>

set_milk(m) ==
    IF ~ValidMilk(m)
    THEN Raise(Call("set_milk", m, 0, FALSE), "InvalidOption")
    ELSE /\ milk' = m
         /\ Return(Call("set_milk", m, 0, FALSE))
         /\ UNCHANGED <<base, size, syrups, sugar, iced>>

\* the limit test off by one: a fifth syrup gets in
AtSyrupLimitOffByOne(s, name) == Cardinality(s) > MAX_SYRUPS

\* main.py:115: the limit is tested before the insertion, on the size of the
\* set alone, whether or not the name is already in it.
AtSyrupLimit(s, name) == Cardinality(s) >= MAX_SYRUPS

\* add_syrup taking a name that is already there out of the set
add_syrupToggle(name) ==
    IF Cardinality(syrups) >= MAX_SYRUPS
    THEN Raise(Call("add_syrup", name, 0, FALSE), "LimitExceeded")
    ELSE /\ syrups' = IF name \in syrups THEN syrups \ {name}
                                          ELSE syrups \cup {name}
         /\ Return(Call("add_syrup", name, 0, FALSE))
         /\ UNCHANGED <<base, size, milk, sugar, iced>>

add_syrup(name) ==
    IF AtSyrupLimit(syrups, name)
    THEN Raise(Call("add_syrup", name, 0, FALSE), "LimitExceeded")
    ELSE /\ syrups' = syrups \cup {name}
         /\ Return(Call("add_syrup", name, 0, FALSE))
         /\ UNCHANGED <<base, size, milk, sugar, iced>>

\* the range test without its lower bound
SugarNoLowerBound(n) == n <= MAX_SUGAR

SugarInRange(n) == 0 <= n /\ n <= MAX_SUGAR

\* set_sugar assigning before it validates
set_sugarAssignFirst(n) ==
    /\ sugar' = n
    /\ call' = Call("set_sugar", "", n, FALSE)
    /\ result' = IF 0 <= n /\ n <= MAX_SUGAR THEN "ok" ELSE "OutOfRange"
    /\ built' = <<>>
    /\ rendered' = <<>>
    /\ UNCHANGED <<base, size, milk, syrups, iced, orders>>

set_sugar(n) ==
    IF ~SugarInRange(n)
    THEN Raise(Call("set_sugar", "", n, FALSE), "OutOfRange")
    ELSE /\ sugar' = n
         /\ Return(Call("set_sugar", "", n, FALSE))
         /\ UNCHANGED <<base, size, milk, syrups, iced>>

set_iced(flag) ==
    /\ iced' = flag
    /\ Return(Call("set_iced", "", 0, flag))
    /\ UNCHANGED <<base, size, milk, syrups, sugar>>

\* clear_extras forgetting the iced flag
clear_extrasKeepsIced ==
    /\ milk' = "none"
    /\ syrups' = {}
    /\ sugar' = 0
    /\ call' = Call("clear_extras", "", 0, FALSE)
    /\ result' = "ok"
    /\ built' = <<>>
    /\ rendered' = <<>>
    /\ UNCHANGED <<base, size, iced, orders>>

\* clear_extras leaving the syrups
clear_extrasKeepsSyrups ==
    /\ milk' = "none"
    /\ sugar' = 0
    /\ iced' = FALSE
    /\ Return(Call("clear_extras", "", 0, FALSE))
    /\ UNCHANGED <<base, size, syrups>>

\* clear_extras starting the builder over, base and size included
clear_extrasResetsAll ==
    /\ base' = None
    /\ size' = None
    /\ milk' = "none"
    /\ syrups' = {}
    /\ sugar' = 0
    /\ iced' = FALSE
    /\ Return(Call("clear_extras", "", 0, FALSE))

clear_extras ==
    /\ milk' = "none"
    /\ syrups' = {}
    /\ sugar' = 0
    /\ iced' = FALSE
    /\ Return(Call("clear_extras", "", 0, FALSE))
    /\ UNCHANGED <<base, size>>

(***************************************************************************)
(* Float arithmetic of CoffeeOrder._calculate_price.                       *)
(***************************************************************************)
RECURSIVE Pow2Below(_, _)
\* the largest power of two p' >= p with p' < n (p a power of two, p < n)
Pow2Below(n, p) == IF 2 * p < n THEN Pow2Below(n, 2 * p) ELSE p

\* The gap, in units of 2^-52, between the float n (an integer, n > 1) and
\* the next float below it: 2^e with 2^e < n <= 2^(e+1).
SpacingBelow(n) == Pow2Below(n, 1)

\* d/u rounded to the nearest integer, ties to even.  d counts down from a
\* float whose mantissa is even, so the q-th float below it has the parity
\* of q.
RoundToEven(d, u) ==
    LET q == d \div u
        r == d % u
    IN  IF 2 * r < u THEN q
        ELSE IF 2 * r > u THEN q + 1
        ELSE IF q % 2 = 0 THEN q ELSE q + 1

\* int * float.  The exact product of the integer i and the multiplier m is
\* i*tenths/10 - (i*err/10) * 2^-52; every catalog price is a multiple of
\* 10, so i*tenths/10 is an integer, itself a float.
FMul(i, m) ==
    LET n == (i * m.tenths) \div 10
        s == SpacingBelow(n)
    IN  [whole |-> n, below |-> RoundToEven(i * m.err, 10 * s) * s]

\* float + int.
FAdd(x, j) ==
    LET n == x.whole + j
        s == SpacingBelow(n)
    IN  [whole |-> n, below |-> RoundToEven(x.below, s) * s]

(***************************************************************************)
(* CoffeeOrder                                                             *)
(***************************************************************************)
\* the pricing lookups of _calculate_price succeed (no KeyError)
PricingDefined(b, s, m) ==
    /\ b \in DOMAIN BASE_PRICES
    /\ s \in DOMAIN SIZE_MULTIPLIERS
    /\ m \in DOMAIN MILK_PRICES

\* the ice surcharge forgotten
_calculate_priceNoIce(b, s, m, syr, ice) ==
    FMul(BASE_PRICES[b] + MILK_PRICES[m] + SYRUP_PRICE * Len(syr),
         SIZE_MULTIPLIERS[s])

\* the ice surcharge added before the multiplication
_calculate_priceIceScaled(b, s, m, syr, ice) ==
    FMul(BASE_PRICES[b] + MILK_PRICES[m] + SYRUP_PRICE * Len(syr)
           + (IF ice THEN ICE_PRICE ELSE 0),
         SIZE_MULTIPLIERS[s])

_calculate_price(b, s, m, syr, ice) ==
    LET base_price == BASE_PRICES[b]
        size_multiplier == SIZE_MULTIPLIERS[s]
        milk_price == MILK_PRICES[m]
        syrup_price == SYRUP_PRICE * Len(syr)
        ice_price == IF ice THEN ICE_PRICE ELSE 0
        total == FMul(base_price + milk_price + syrup_price, size_multiplier)
    IN  FAdd(total, ice_price)

RECURSIVE Join(_, _)
\* sep.join(parts)
Join(sep, parts) ==
    IF Len(parts) = 0 THEN ""
    ELSE IF Len(parts) = 1 THEN parts[1]
    ELSE parts[1] \o sep \o Join(sep, Tail(parts))

RECURSIVE Strip(_)
\* str.strip(): leading and trailing blanks removed
Strip(str) ==
    IF Len(str) = 0 THEN str
    ELSE IF SubSeq(str, 1, 1) = " " THEN Strip(SubSeq(str, 2, Len(str)))
    ELSE IF SubSeq(str, Len(str), Len(str)) = " "
         THEN Strip(SubSeq(str, 1, Len(str) - 1))
    ELSE str

\* the description without its sugar part
_generate_descriptionNoSugar(b, s, m, syr, sug, ice) ==
    LET extra_parts ==
            (IF m # "none" THEN <<"with " \o m \o " milk">> ELSE <<>>)
         \o (IF Len(syr) > 0 THEN <<"+" \o Join(", ", syr)>> ELSE <<>>)
         \o (IF ice THEN <<"(iced)">> ELSE <<>>)
    IN  IF Len(extra_parts) = 0
        THEN ""
        ELSE s \o " " \o b \o " " \o Strip(Join(" ", extra_parts))

_generate_description(b, s, m, syr, sug, ice) ==
    LET extra_parts ==
            (IF m # "none" THEN <<"with " \o m \o " milk">> ELSE <<>>)
         \o (IF Len(syr) > 0 THEN <<"+" \o Join(", ", syr)>> ELSE <<>>)
         \o (IF ice THEN <<"(iced)">> ELSE <<>>)
         \o (IF sug > 0 THEN <<ToString(sug) \o " tsp sugar">> ELSE <<>>)
    IN  IF Len(extra_parts) = 0
        THEN ""
        ELSE s \o " " \o b \o " " \o Strip(Join(" ", extra_parts))

\* the constructor charging 10 for each teaspoon of sugar
CoffeeOrderSugarPriced(b, s, m, syr, sug, ice) ==
    [base |-> b, size |-> s, milk |-> m, syrups |-> syr, sugar |-> sug,
     iced |-> ice,
     price |-> FAdd(_calculate_price(b, s, m, syr, ice), 10 * sug),
     description |-> _generate_description(b, s, m, syr, sug, ice)]

\* the constructor called without the sugar argument (sugar: int = 0)
CoffeeOrderDropsSugar(b, s, m, syr, sug, ice) ==
    [base |-> b, size |-> s, milk |-> m, syrups |-> syr, sugar |-> 0,
     iced |-> ice,
     price |-> _calculate_price(b, s, m, syr, ice),
     description |-> _generate_description(b, s, m, syr, 0, ice)]

\* CoffeeOrder.__init__
CoffeeOrder(b, s, m, syr, sug, ice) ==
    [base |-> b, size |-> s, milk |-> m, syrups |-> syr, sugar |-> sug,
     iced |-> ice,
     price |-> _calculate_price(b, s, m, syr, ice),
     description |-> _generate_description(b, s, m, syr, sug, ice)]

\* f"{x:.2f}": the decimal nearest to the float, with two digits after the
\* point.  100 * x is 100 * whole - 100 * below * 2^-52, and the deficit
\* stays under half a cent as long as below < 2^44 (below is at most 512
\* for the floats _calculate_price forms), so the cents are 100 * whole.
Format2f(x) ==
    LET cents == 100 * x.whole
    IN  ToString(cents \div 100) \o "." \o ToString((cents % 100) \div 10)
          \o ToString(cents % 10)

\* __str__ without the test for an empty description
__str__DescriptionOnly(o) == o.description

\* CoffeeOrder.__str__
__str__(o) ==
    IF Strip(o.description) = ""
    THEN Format2f(o.price) \o " RUB"
    ELSE o.description

(***************************************************************************)
(* CoffeeOrderBuilder.build                                                *)
(***************************************************************************)
\* tuple(self.syrups): the elements of the set, each once, in the iteration
\* order of the set, which the language leaves open.
TupleOf(set) ==
    {t \in [1..Cardinality(set) -> set] : {t[i] : i \in DOMAIN t} = set}

\* build() filling in and returning one CoffeeOrder object kept in the builder
DeliverShared(os, o, keep) ==
    IF keep THEN Append([i \in 1..Len(os) |-> o], o)
    ELSE [i \in 1..Len(os) |-> o]

\* build() returns a new CoffeeOrder object; the objects returned earlier
\* are not touched.  keep: the caller stores the reference.
Deliver(os, o, keep) == IF keep THEN Append(os, o) ELSE os

\* build() without the test of size
MissingBaseOnly(b, s) == b = None

MissingRequired(b, s) == b = None \/ s = None

\* build() handing the builder back as new (extras cleared) after it built
buildAndReset(keep) ==
    /\ keep => Len(orders) < MaxKept
    /\ IF base = None \/ size = None
       THEN Raise(Call("build", "", 0, FALSE), "MissingField")
       ELSE \E t \in TupleOf(syrups) :
              LET o == CoffeeOrder(base, size, milk, t, sugar, iced)
              IN  /\ built' = <<o>>
                  /\ orders' = Deliver(orders, o, keep)
                  /\ rendered' = <<>>
                  /\ call' = Call("build", "", 0, FALSE)
                  /\ result' = "ok"
                  /\ milk' = "none"
                  /\ syrups' = {}
                  /\ sugar' = 0
                  /\ iced' = FALSE
                  /\ UNCHANGED <<base, size>>

build(keep) ==
    /\ keep => Len(orders) < MaxKept
    /\ IF MissingRequired(base, size)
       THEN Raise(Call("build", "", 0, FALSE), "MissingField")
       ELSE IF ~PricingDefined(base, size, milk)
       THEN Raise(Call("build", "", 0, FALSE), "KeyError")
       ELSE \E t \in TupleOf(syrups) :
              LET o == CoffeeOrder(base, size, milk, t, sugar, iced)
              IN  /\ built' = <<o>>
                  /\ orders' = Deliver(orders, o, keep)
                  /\ rendered' = <<>>
                  /\ call' = Call("build", "", 0, FALSE)
                  /\ result' = "ok"
                  /\ UNCHANGED <<base, size, milk, syrups, sugar, iced>>

\* str(order) on the order the last call returned
render ==
    /\ Len(built) = 1
    /\ rendered' = <<__str__(built[1])>>
    /\ call' = Call("__str__", "", 0, FALSE)
    /\ result' = "ok"
    /\ UNCHANGED <<base, size, milk, syrups, sugar, iced, built, orders>>

(***************************************************************************)
(* Specifications                                                          *)
(***************************************************************************)
\* Spec: the limits of the builder
Next ==
    \/ \E b \in BaseArgs : set_base(b)
    \/ \E s \in SizeArgs : set_size(s)
    \/ \E m \in MilkArgs : set_milk(m)
    \/ \E name \in Names : add_syrup(name)
    \/ \E n \in SugarArgs : set_sugar(n)
    \/ \E flag \in BOOLEAN : set_iced(flag)
    \/ clear_extras
    \/ build(FALSE)

Spec == Init /\ [][Next]_vars

\* SpecCatalog: every catalog key
NextCatalog ==
    \/ \E b \in AllBaseArgs : set_base(b)
    \/ \E s \in AllSizeArgs : set_size(s)
    \/ \E m \in AllMilkArgs : set_milk(m)
    \/ \E name \in FewNames : add_syrup(name)
    \/ \E n \in FewSugarArgs : set_sugar(n)
    \/ \E flag \in BOOLEAN : set_iced(flag)
    \/ clear_extras
    \/ build(FALSE)

SpecCatalog == Init /\ [][NextCatalog]_vars

\* SpecReuse: the caller keeps orders while it goes on using the builder
NextReuse ==
    \/ \E b \in ReuseBaseArgs : set_base(b)
    \/ \E s \in ReuseSizeArgs : set_size(s)
    \/ \E m \in ReuseMilkArgs : set_milk(m)
    \/ \E name \in FewNames : add_syrup(name)
    \/ \E n \in ReuseSugarArgs : set_sugar(n)
    \/ \E flag \in BOOLEAN : set_iced(flag)
    \/ clear_extras
    \/ \E keep \in BOOLEAN : build(keep)

SpecReuse == Init /\ [][NextReuse]_vars

\* SpecPrice: pricing, description and rendering over the whole catalog.
\* The builder starts with any base, size and milk of the catalog and 0 to
\* MAX_SYRUPS syrups set (set_size called last); the caller builds and
\* renders what it built.
PriceSyrups == {{SyrupPool[i] : i \in 1..k} : k \in 0..MAX_SYRUPS}

InitPrice ==
    /\ base \in DOMAIN BASE_PRICES
    /\ size \in DOMAIN SIZE_MULTIPLIERS
    /\ milk \in DOMAIN MILK_PRICES
    /\ syrups \in PriceSyrups
    /\ sugar = 0
    /\ iced = FALSE
    /\ call = Call("set_size", size, 0, FALSE)
    /\ result = "ok"
    /\ built = <<>>
    /\ rendered = <<>>
    /\ orders = <<>>

NextPrice ==
    \/ \E n \in FewSugarArgs \cup {0} : set_sugar(n)
    \/ \E flag \in BOOLEAN : set_iced(flag)
    \/ build(FALSE)
    \/ render

SpecPrice == InitPrice /\ [][NextPrice]_vars

\* SpecPairs: two orders of one builder compared.  The builder starts as in
\* SpecPrice, with all MAX_SYRUPS syrups only for the cheapest and the
\* dearest large drinks; the caller keeps the first order it chooses to
\* keep and goes on changing sugar and ice and building.
InitPairs ==
    /\ InitPrice
    /\ Cardinality(syrups) = MAX_SYRUPS
          => /\ size = "large"
             /\ <<base, milk>> \in {<<"espresso", "none">>, <<"cappuccino", "oat">>}

NextPairs ==
    \/ \E n \in FewSugarArgs \cup {0} : set_sugar(n)
    \/ \E flag \in BOOLEAN : set_iced(flag)
    \/ build(FALSE)
    \/ orders = <<>> /\ build(TRUE)

SpecPairs == InitPairs /\ [][NextPairs]_vars

(***************************************************************************)
(* Claims.  The errors of the specification are the ValueErrors of the     *)
(* code: InvalidOption "... must be one of", LimitExceeded "Maximum 4      *)
(* syrups allowed", OutOfRange "Sugar must be between", MissingField       *)
(* "Base is required" / "Size is required".                                *)
(***************************************************************************)
Fields == <<base, size, milk, syrups, sugar, iced>>

\* C1: add_syrup(name) with a name already in the syrup set succeeds and
\* leaves the set as it is, also when the set already holds 4 names.
C1_ReAddSucceeds ==
    [][(call'.op = "add_syrup" /\ call'.s \in syrups)
         => (result' = "ok" /\ syrups' = syrups)]_vars

\* C2: an order the caller holds stays exactly as it was built, whatever is
\* called on the builder afterwards.
C2_OrdersAreSnapshots ==
    [][\A i \in 1..Len(orders) :
          Len(orders') >= i /\ orders'[i] = orders[i]]_vars

\* a later build returned another order than the one held, from a builder
\* whose milk was changed in between
C2_Witness ==
    /\ Len(orders) = 1
    /\ call.op = "build" /\ result = "ok"
    /\ built[1] # orders[1]
    /\ orders[1].milk = "oat" /\ milk = "soy"
    /\ Len(orders[1].syrups) = 1 /\ Cardinality(syrups) = 2

\* C3: build() raises MissingField exactly when base or size is None and
\* returns an order otherwise; no order has base or size None.
C3_BuildRequiresBaseAndSize ==
    /\ [][call'.op = "build"
            => IF base = None \/ size = None
               THEN result' = "MissingField" /\ built' = <<>>
               ELSE result' = "ok" /\ Len(built') = 1]_vars
    /\ [](\A i \in 1..Len(built) :
             built[i].base # None /\ built[i].size # None)

C3_Witness ==
    call.op = "build" /\ result = "MissingField" /\ base # None /\ size = None

\* C4: add_syrup of a name not in the set raises LimitExceeded when the set
\* holds 4 names, and adds the name when it holds fewer.
C4_NewSyrupLimit ==
    [][(call'.op = "add_syrup" /\ call'.s \notin syrups)
         => /\ Cardinality(syrups) = 4
                 => (result' = "LimitExceeded" /\ syrups' = syrups)
            /\ Cardinality(syrups) < 4
                 => (result' = "ok" /\ syrups' = syrups \cup {call'.s})]_vars

C4_Witness ==
    /\ call.op = "add_syrup" /\ result = "LimitExceeded"
    /\ call.s \notin syrups /\ Cardinality(syrups) = 4

\* C5: set_sugar(n) sets sugar to n exactly when 0 <= n <= 5 and raises
\* OutOfRange otherwise; the sugar of the builder and of every order is in
\* 0..5.
C5_SugarRange ==
    /\ [][call'.op = "set_sugar"
            => IF 0 <= call'.n /\ call'.n <= 5
               THEN result' = "ok" /\ sugar' = call'.n
               ELSE result' = "OutOfRange" /\ sugar' = sugar]_vars
    /\ [](sugar \in 0..5 /\ \A i \in 1..Len(built) : built[i].sugar \in 0..5)

C5_Witness ==
    call.op = "set_sugar" /\ call.n = 6 /\ result = "OutOfRange" /\ sugar = 5

\* C6: set_base, set_size and set_milk raise InvalidOption exactly when the
\* argument is no key of their catalog table and set the field otherwise;
\* base and size are None or a key, milk is a key, and build() never fails
\* on a pricing lookup.
BaseKeys == {"espresso", "americano", "latte", "cappuccino"}
SizeKeys == {"small", "medium", "large"}
MilkKeys == {"whole", "skim", "oat", "soy", "none"}

C6_OptionsValidated ==
    /\ [][/\ call'.op = "set_base"
             => IF call'.s \in BaseKeys
                THEN result' = "ok" /\ base' = call'.s
                ELSE result' = "InvalidOption" /\ base' = base
          /\ call'.op = "set_size"
             => IF call'.s \in SizeKeys
                THEN result' = "ok" /\ size' = call'.s
                ELSE result' = "InvalidOption" /\ size' = size
          /\ call'.op = "set_milk"
             => IF call'.s \in MilkKeys
                THEN result' = "ok" /\ milk' = call'.s
                ELSE result' = "InvalidOption" /\ milk' = milk]_vars
    /\ [](/\ base \in BaseKeys \cup {None}
          /\ size \in SizeKeys \cup {None}
          /\ milk \in MilkKeys
          /\ result # "KeyError")

C6_Witness ==
    /\ call.op = "set_milk" /\ call.s = "cream" /\ result = "InvalidOption"
    /\ milk = "skim" /\ base = "americano" /\ size = "medium"

\* C7: a call on the builder that raises leaves its six fields as they were.
C7_FailureChangesNothing ==
    [][result' # "ok" => Fields' = Fields]_vars

C7_Witness ==
    /\ call.op = "set_sugar" /\ result = "OutOfRange"
    /\ sugar = 2 /\ syrups # {} /\ milk # "none" /\ iced

\* C8: clear_extras() never raises; it sets milk to "none", syrups to the
\* empty set, sugar to 0 and iced to false and leaves base and size; the
\* order built right after it costs basePrice[base] * sizeMultiplier[size]
\* (in tenths: base price times the multiplier's tenths, exactly) and has an
\* empty description.
C8_ClearExtras ==
    [][/\ call'.op = "clear_extras"
          => /\ result' = "ok"
             /\ milk' = "none" /\ syrups' = {} /\ sugar' = 0 /\ iced' = FALSE
             /\ base' = base /\ size' = size
       /\ (call.op = "clear_extras" /\ call'.op = "build"
             /\ base # None /\ size # None)
          => /\ result' = "ok" /\ Len(built') = 1
             /\ 10 * built'[1].price.whole
                  = BASE_PRICES[base] * SIZE_MULTIPLIERS[size].tenths
             /\ built'[1].price.below = 0
             /\ built'[1].description = ""]_vars

C8_Witness ==
    /\ call.op = "clear_extras" /\ result = "ok"
    /\ base = "cappuccino" /\ size = "large"
    /\ milk = "none" /\ syrups = {} /\ sugar = 0 /\ ~iced

\* C9: the order build() returns has the base, size, milk, sugar and iced of
\* the builder at the call, and its syrups are exactly the builder's.
C9_OrderReflectsBuilder ==
    [][(call'.op = "build" /\ result' = "ok")
         => /\ Len(built') = 1
            /\ built'[1].base = base /\ built'[1].size = size
            /\ built'[1].milk = milk /\ built'[1].sugar = sugar
            /\ built'[1].iced = iced
            /\ Len(built'[1].syrups) = Cardinality(syrups)
            /\ {built'[1].syrups[i] : i \in 1..Len(built'[1].syrups)}
                 = syrups]_vars

C9_Witness ==
    /\ call.op = "build" /\ result = "ok"
    /\ Len(orders) = 1 /\ built[1] # orders[1]
    /\ built[1].sugar = 2 /\ built[1].iced /\ Len(built[1].syrups) = 2

\* C10: build(), whether it returns or raises, leaves the six fields of the
\* builder as they were.
C10_BuildKeepsBuilder ==
    [][call'.op = "build" => Fields' = Fields]_vars

C10_Witness ==
    /\ call.op = "build" /\ result = "ok"
    /\ milk = "soy" /\ syrups = {"vanilla", "caramel"} /\ sugar = 2 /\ iced

\* The catalog as the specification states it, and the price of an order in
\* tenths of a ruble by its formula, in exact arithmetic.
CatalogBase ==
    [espresso |-> 200, americano |-> 250, latte |-> 300, cappuccino |-> 320]
CatalogSize10 == [small |-> 10, medium |-> 12, large |-> 14]
CatalogMilk == [whole |-> 30, skim |-> 30, oat |-> 60, soy |-> 50, none |-> 0]

ExactTenths(o) ==
    (CatalogBase[o.base] + CatalogMilk[o.milk] + 40 * Len(o.syrups))
        * CatalogSize10[o.size]
      + (IF o.iced THEN 200 ELSE 0)

\* C11 as claimed: the price of every order is exactly
\* (basePrice + milkPrice + 40 * |syrups|) * sizeMultiplier + 20 * iced,
\* that is 10 * price = (base + milk + 40 * |syrups|) * m10 + 200 * iced.
C11_PriceExactInTenths ==
    \A i \in 1..Len(built) :
        /\ 10 * built[i].price.whole = ExactTenths(built[i])
        /\ built[i].price.below = 0

\* C11 amended: the price is that formula evaluated in binary64, the ice
\* surcharge added after the multiplication: it is the exact value for the
\* sizes small and medium, and for large either the exact value or the
\* float next below it (2^-44 less, below = 256).
C11_PriceIsFloatOfFormula ==
    \A i \in 1..Len(built) :
        /\ 10 * built[i].price.whole = ExactTenths(built[i])
        /\ built[i].price.below \in {0, 256}
        /\ built[i].size # "large" => built[i].price.below = 0

\* espresso, large, whole milk, three syrups, iced: 509.99999999999994
C11_Witness ==
    /\ call.op = "build" /\ result = "ok"
    /\ built[1].base = "espresso" /\ built[1].size = "large"
    /\ built[1].milk = "whole" /\ Len(built[1].syrups) = 3 /\ built[1].iced
    /\ built[1].price = [whole |-> 510, below |-> 256]

\* x < y for two floats [whole, below] (below < 2^52)
FloatLess(x, y) ==
    \/ x.whole < y.whole
    \/ x.whole = y.whole /\ x.below > y.below

SyrupSet(o) == {o.syrups[i] : i \in 1..Len(o.syrups)}

\* the order kept and the order built last differ at most in the fields of d
SameBut(d) ==
    /\ Len(orders) = 1 /\ Len(built) = 1
    /\ "base" \in d \/ orders[1].base = built[1].base
    /\ "size" \in d \/ orders[1].size = built[1].size
    /\ "milk" \in d \/ orders[1].milk = built[1].milk
    /\ "syrups" \in d \/ SyrupSet(orders[1]) = SyrupSet(built[1])
    /\ "sugar" \in d \/ orders[1].sugar = built[1].sugar
    /\ "iced" \in d \/ orders[1].iced = built[1].iced

\* C12: the price of every order is greater than 0 (whole - below * 2^-52
\* with whole >= 1), and an order built with iced = true costs more than the
\* order built before it from the same builder with iced = false and every
\* other field the same.
C12_PositiveAndIcedCostsMore ==
    /\ \A i \in 1..Len(built) :
          built[i].price.whole >= 1 /\ built[i].price.below < 1024
    /\ (SameBut({"iced"}) /\ ~orders[1].iced /\ built[1].iced)
          => FloatLess(orders[1].price, built[1].price)

\* espresso, large, four syrups: 503.99999999999994, then iced: 524.0
C12_Witness ==
    /\ SameBut({"iced"}) /\ ~orders[1].iced /\ built[1].iced
    /\ call.op = "build"
    /\ orders[1].price = [whole |-> 504, below |-> 256]
    /\ built[1].price = [whole |-> 524, below |-> 0]

\* C13: add_syrup called again with the name it has just added leaves the
\* set as it is, the name in it once; the order built after it holds the
\* name once and is priced for the distinct syrups of the builder.
C13_DuplicateSyrupCountsOnce ==
    [][/\ (call.op = "add_syrup" /\ result = "ok"
             /\ call'.op = "add_syrup" /\ call'.s = call.s)
          => (syrups' = syrups /\ call.s \in syrups')
       /\ (call.op = "add_syrup" /\ call.s \in syrups
             /\ call'.op = "build" /\ result' = "ok")
          => LET o == built'[1]
             IN  /\ Cardinality({i \in 1..Len(o.syrups) :
                                    o.syrups[i] = call.s}) = 1
                 /\ Len(o.syrups) = Cardinality(syrups)
                 /\ 10 * o.price.whole
                      = (CatalogBase[base] + CatalogMilk[milk]
                           + 40 * Cardinality(syrups)) * CatalogSize10[size]
                        + (IF iced THEN 200 ELSE 0)]_vars

\* add_syrup("vanilla") has returned, once or several times in a row
C13_Witness ==
    /\ call = Call("add_syrup", "vanilla", 0, FALSE) /\ result = "ok"
    /\ syrups = {"vanilla"}
    /\ base = "latte" /\ size = "small" /\ milk = "none"

NoExtras(o) ==
    o.milk = "none" /\ Len(o.syrups) = 0 /\ o.sugar = 0 /\ ~o.iced

\* the price of o with two decimals and " RUB": every price is a whole
\* number of rubles or 2^-44 less, which two decimals round to N.00
PriceText(o) == ToString(ExactTenths(o) \div 10) \o ".00 RUB"

\* C14: str(order) is the price with exactly two decimals followed by
\* " RUB" exactly when the description is empty, and the description itself
\* otherwise; an order of base and size only renders as its price, an order
\* with an extra never shows its price.
C14_RenderPriceOrDescription ==
    \A i \in 1..Len(rendered) :
        LET o == built[1]
            t == rendered[i]
        IN  /\ (t = PriceText(o)) <=> (o.description = "")
            /\ o.description # "" => t = o.description
            /\ NoExtras(o) => t = PriceText(o)
            /\ ~NoExtras(o) => (t = o.description /\ t # PriceText(o))

\* a large cappuccino without extras rendered
C14_Witness ==
    /\ call.op = "__str__"
    /\ NoExtras(built[1])
    /\ rendered = <<"448.00 RUB">>

\* C15: the builder never holds more than 4 syrups, and no order carries
\* more than 4.
C15_AtMostFourSyrups ==
    /\ Cardinality(syrups) <= 4
    /\ \A i \in 1..Len(built) : Len(built[i].syrups) <= 4

\* an order built with four syrups, the fifth name of the pool among them
C15_Witness ==
    /\ call.op = "build" /\ result = "ok"
    /\ Cardinality(syrups) = 4 /\ Len(built[1].syrups) = 4
    /\ SyrupPool[5] \in syrups

\* C16: the description of an order is empty exactly when milk is "none",
\* there is no syrup, iced is false and sugar is 0; otherwise it starts with
\* "{size} {base}".
C16_DescriptionEmptyIffNoExtras ==
    \A i \in 1..Len(built) :
        LET o == built[i]
            head == o.size \o " " \o o.base
        IN  /\ (o.description = "") <=> NoExtras(o)
            /\ ~NoExtras(o)
                 => /\ Len(o.description) > Len(head)
                    /\ SubSeq(o.description, 1, Len(head)) = head

\* sugar is the only extra
C16_Witness ==
    /\ call.op = "build" /\ result = "ok"
    /\ built[1].description = "small espresso 2 tsp sugar"

\* C17: two orders of builder states with the same base, size, milk, syrups
\* and iced have the same price, whatever their sugar.
C17_SugarIsFree ==
    SameBut({"sugar"}) => orders[1].price = built[1].price

\* set_sugar(2) between the two builds of an order that is not a whole
\* number of rubles
C17_Witness ==
    /\ SameBut({"sugar"}) /\ call.op = "build"
    /\ orders[1].sugar = 0 /\ built[1].sugar = 2
    /\ built[1].price = [whole |-> 504, below |-> 256]

BuildSucceeded == call.op = "build" /\ result = "ok"

\* C18: no call takes base or size back to None, and once build() has
\* returned an order every later build() returns one.
C18_BuildKeepsSucceeding ==
    /\ [][(base # None => base' # None)
            /\ (size # None => size' # None)]_vars
    /\ [](BuildSucceeded => [](call.op = "build" => result = "ok"))

\* a refused setter on a builder that has its base and size and extras
C18_Witness ==
    /\ call.op = "set_base" /\ result = "InvalidOption"
    /\ base # None /\ size # None
    /\ syrups # {} /\ iced

\* C19: after add_syrup raised LimitExceeded, clear_extras() empties the
\* set and add_syrup succeeds again; it raises LimitExceeded only when 4
\* names are in the set, so exactly 4 distinct names go in before the next
\* LimitExceeded; no call but clear_extras() takes a name out of the set,
\* and at 4 names add_syrup of a new name raises.
C19_LimitNotSticky ==
    [][/\ (result = "LimitExceeded" /\ call'.op = "clear_extras")
          => (result' = "ok" /\ syrups' = {})
       /\ (call.op = "clear_extras" /\ call'.op = "add_syrup")
          => (result' = "ok" /\ syrups' = {call'.s})
       /\ (call'.op = "add_syrup" /\ call'.s \notin syrups)
          => IF Cardinality(syrups) = 4
             THEN result' = "LimitExceeded"
             ELSE result' = "ok" /\ Cardinality(syrups') = Cardinality(syrups) + 1
       /\ (call'.op = "add_syrup" /\ result' = "LimitExceeded")
          => Cardinality(syrups) = 4
       /\ call'.op # "clear_extras" => syrups \subseteq syrups']_vars

\* the limit hit again by the first name of the pool, on a builder whose
\* other extras are at their defaults
C19_Witness ==
    /\ call = Call("add_syrup", SyrupPool[1], 0, FALSE)
    /\ result = "LimitExceeded"
    /\ syrups = {SyrupPool[i] : i \in 2..5}
    /\ milk = "none" /\ sugar = 0 /\ ~iced

====
